---- MODULE Spec2Model ----
(***************************************************************************)
(* Model of the blind-peering dashboard: the allocation core               *)
(* (src/src/lib/assignment-utils.ts: the captain allocator, the            *)
(* participant allocator and the roster builder) and the handlers that     *)
(* persist its plans (dashboard, assignments view, people and restaurant   *)
(* management, Pretix sync).  Records keep the field names of the source.  *)
(***************************************************************************)
EXTENDS Integers, Sequences, FiniteSets, Bags, TLC

VARIABLES
  restaurants,     \* argument `restaurants`: sequence of Restaurant records
  participants,    \* argument `participants` / `captains`: sequence of Participant records
  requireCaptain,  \* options?.requireCaptain ?? true
  pc,              \* position inside the running call
  shuffled,        \* shuffledParticipants / shuffledCaptains
  cursor,          \* number of elements of `shuffled` the for-of loop has consumed
  pools,           \* live per-venue counters {id, capacity, assigned}
  assignments,     \* ParticipantAssignmentPlan[] being built
  unassigned,      \* Participant[] being built
  plan,            \* CaptainAssignmentPlan[] returned by planCaptainAssignments
  error,           \* the Error thrown by planCaptainAssignments (NoError: none)
  rosters,         \* RestaurantRoster[] returned by buildRestaurantRosters
  dbRestaurants,   \* table restaurants: sequence of rows, in id order
  dbParticipants,  \* table participants: sequence of rows, in id order
  dbRows,          \* table assignments: a bag of rows; `seen` tells whether the
                   \* lagging session's cached list holds the row's id
  dbState,         \* event_status.state of the row 'default'
  cacheGone,       \* participant ids of the rows the lagging session's cached
                   \* list still holds although they were deleted
  cacheState,      \* eventStatus.state as cached by the lagging session
  dialogOpen,      \* showReassignDialog of the lagging session
  last,            \* how the last handler ended
  sessions,        \* the sessions at work
  syncResult       \* the LOCAL list and the SyncResult.errors of the last sync run

callVars == <<restaurants, participants, requireCaptain, pc, shuffled, cursor,
              pools, assignments, unassigned, plan, error, rosters>>

storeVars == <<dbRestaurants, dbParticipants, dbRows, dbState, cacheGone,
               cacheState, dialogOpen, last, sessions, syncResult>>

vars == <<callVars, storeVars>>

-----------------------------------------------------------------------------
(* Bounds of the model.                                                    *)

MaxVenues == 2

MaxSeats == 3

MaxParticipants == 3

MaxCaptains == 3

OverbookSeats == 5

OverbookParticipants == 6

MaxRosterAssignments == 3

NumVenues == 2

NumPeople == 2

SessionGuests == 2

VenueSeats == 2
\* participants of the synced event that came from Pretix
SyncPeople == 2

NULL == 0

Statuses == {"registered", "cancelled", "late_joiner"}

NoError == [thrown |-> FALSE, need |-> 0, have |-> 0]

Sessions == {"lagging", "fresh"}

\* No sync run yet.
NoSync == [local |-> {}, errors |-> {}]

-----------------------------------------------------------------------------
(* Generic helpers.                                                        *)

Max(a, b) == IF a >= b THEN a ELSE b

RECURSIVE SumSeq(_)
SumSeq(s) == IF s = <<>> THEN 0 ELSE Head(s) + SumSeq(Tail(s))

RECURSIVE SeqsUpTo(_, _)
SeqsUpTo(S, n) ==
  IF n = 0 THEN {<<>>}
  ELSE SeqsUpTo(S, n - 1) \cup [1..n -> S]

-----------------------------------------------------------------------------
(* randomShuffle: Fisher-Yates.  js[k] is the value                        *)
(* Math.floor(Math.random() * (index + 1)) drawn when index = k, so        *)
(* js[k] \in 0..k.  Arrays are 0-based in the source and 1-based here.     *)

RECURSIVE RandomDraws(_)
RandomDraws(n) ==
  IF n <= 0 THEN {<<>>}
  ELSE {Append(js, j) : js \in RandomDraws(n - 1), j \in 0..n}

\* A swap that forgets the second store: shuffled[index] = shuffled[j] only.
SwapLossy(s, a, b) == [s EXCEPT ![a + 1] = s[b + 1]]

Swap(s, a, b) == [s EXCEPT ![a + 1] = s[b + 1], ![b + 1] = s[a + 1]]

RECURSIVE ShuffleFrom(_, _, _)
ShuffleFrom(s, index, js) ==
  IF index <= 0 THEN s
  ELSE ShuffleFrom(Swap(s, index, js[index]), index - 1, js)

randomShuffle(items, js) == ShuffleFrom(items, Len(items) - 1, js)

\* A filter that lets cancelled participants through.
NotCancelledAny(p) == TRUE

NotCancelled(p) == p.status # "cancelled"

-----------------------------------------------------------------------------
(* planCaptainAssignments.                                                 *)

\* new Error(`Not enough captains. Need ${restaurants.length} but only have
\* ${eligibleCaptains.length}.`)
\* An error that reports the venue count where the captain count belongs.
CapacityErrorWrongCount(rs, eligibleCaptains) ==
  [thrown |-> TRUE, need |-> Len(rs), have |-> Len(rs)]

CapacityError(rs, eligibleCaptains) ==
  [thrown |-> TRUE, need |-> Len(rs), have |-> Len(eligibleCaptains)]

\* A pairing that reads shuffledCaptains[0] for every venue.
PairCaptainsFirst(rs, shuffledCaptains) ==
  [i \in 1..Len(rs) |->
     [restaurantId |-> rs[i].id, captainId |-> shuffledCaptains[1].id]]

\* restaurants.map((restaurant, index) => ({restaurantId, captainId}))
PairCaptains(rs, shuffledCaptains) ==
  [i \in 1..Len(rs) |->
     [restaurantId |-> rs[i].id, captainId |-> shuffledCaptains[i].id]]

\* The whole call: it is synchronous and returns a plan or throws.
PlanCaptains ==
  /\ pc = "start"
  /\ LET eligibleCaptains == SelectSeq(participants, NotCancelled)
     IN  IF Len(restaurants) = 0
         THEN /\ pc' = "done"
              /\ plan' = <<>>
              /\ UNCHANGED <<shuffled, error>>
         ELSE IF Len(eligibleCaptains) < Len(restaurants)
         THEN /\ pc' = "error"
              /\ error' = CapacityError(restaurants, eligibleCaptains)
              /\ UNCHANGED <<shuffled, plan>>
         ELSE /\ pc' = "done"
              /\ \E js \in RandomDraws(Len(eligibleCaptains) - 1) :
                   /\ shuffled' = randomShuffle(eligibleCaptains, js)
                   /\ plan' = PairCaptains(restaurants, shuffled')
              /\ UNCHANGED error
  /\ UNCHANGED <<restaurants, participants, requireCaptain, cursor, pools,
                 assignments, unassigned, rosters>>
  /\ UNCHANGED storeVars

-----------------------------------------------------------------------------
(* planParticipantAssignments.                                             *)

\* A filter that ignores the captain requirement.
IsEligibleRestaurantAny(r, rc) == TRUE

IsEligibleRestaurant(r, rc) == IF rc THEN r.assigned_captain_id # NULL ELSE TRUE

eligibleRestaurants(rs, rc) == SelectSeq(rs, LAMBDA r : IsEligibleRestaurant(r, rc))

\* A capacity that does not reserve the captain's seat.
CapacityAllSeats(r) == Max(r.max_seats, 0)

Capacity(r) == Max(r.max_seats - 1, 0)

\* Pools kept in a variable that outlives the call.
MakePoolsKept(rs, rc) ==
  IF pools # <<>> THEN pools
  ELSE LET es == eligibleRestaurants(rs, rc)
       IN  [i \in 1..Len(es) |->
              [id |-> es[i].id, capacity |-> Capacity(es[i]), assigned |-> 0]]

MakePools(rs, rc) ==
  LET el == eligibleRestaurants(rs, rc)
  IN  [i \in 1..Len(el) |->
         [id |-> el[i].id, capacity |-> Capacity(el[i]), assigned |-> 0]]

HasSpace(pool) == pool.assigned < pool.capacity

\* A comparator without the fewer-assigned rule.
ComparePoolsByCapacity(a, b) ==
  IF HasSpace(a) # HasSpace(b) THEN (IF HasSpace(a) THEN -1 ELSE 1)
  ELSE b.capacity - a.capacity

\* A comparator whose tie-break prefers the smaller venue.
ComparePoolsSmallerFirst(a, b) ==
  IF HasSpace(a) # HasSpace(b) THEN (IF HasSpace(a) THEN -1 ELSE 1)
  ELSE IF a.assigned # b.assigned THEN a.assigned - b.assigned
  ELSE a.capacity - b.capacity

\* A comparator that prefers the venue with more participants.
ComparePoolsMostFull(a, b) ==
  IF HasSpace(a) # HasSpace(b) THEN (IF HasSpace(a) THEN -1 ELSE 1)
  ELSE IF a.assigned # b.assigned THEN b.assigned - a.assigned
  ELSE b.capacity - a.capacity

\* The comparator handed to Array.prototype.sort: negative puts a first.
ComparePools(a, b) ==
  IF HasSpace(a) # HasSpace(b) THEN (IF HasSpace(a) THEN -1 ELSE 1)
  ELSE IF a.assigned # b.assigned THEN a.assigned - b.assigned
  ELSE b.capacity - a.capacity

\* Array.prototype.sort is stable: x goes after every element it does not
\* precede strictly.
RECURSIVE InsertPool(_, _)
InsertPool(x, sorted) ==
  IF sorted = <<>> THEN <<x>>
  ELSE IF ComparePools(x, Head(sorted)) < 0 THEN <<x>> \o sorted
  ELSE <<Head(sorted)>> \o InsertPool(x, Tail(sorted))

RECURSIVE SortPools(_)
SortPools(ps) ==
  IF ps = <<>> THEN <<>>
  ELSE InsertPool(ps[Len(ps)], SortPools(SubSeq(ps, 1, Len(ps) - 1)))

\* sortedPools.find(pool => pool.capacity > 0 && pool.assigned < pool.capacity)
FindFree(sorted) ==
  LET hits == {i \in 1..Len(sorted) :
                 sorted[i].capacity > 0 /\ sorted[i].assigned < sorted[i].capacity}
  IN  IF hits = {} THEN NULL
      ELSE sorted[CHOOSE i \in hits : \A k \in hits : i <= k].id

\* A fallback without the capacity guard.
OverbookTargetAny(sorted) ==
  IF Len(sorted) > 0 THEN sorted[1].id ELSE NULL

\* The overbooking fallback: the head of the sorted list, if its capacity is > 0.
OverbookTarget(sorted) ==
  IF Len(sorted) > 0 /\ sorted[1].capacity > 0 THEN sorted[1].id ELSE NULL

\* `target` of one loop iteration (its id), or NULL.
Target(ps) ==
  LET sorted == SortPools(ps)
      free == FindFree(sorted)
  IN  IF free # NULL THEN free ELSE OverbookTarget(sorted)

\* pools.find(pool => pool.id === target.id).assigned += 1
BumpPool(ps, id) ==
  LET hits == {i \in 1..Len(ps) : ps[i].id = id}
  IN  IF hits = {} THEN ps
      ELSE LET first == CHOOSE i \in hits : \A k \in hits : i <= k
           IN  [ps EXCEPT ![first].assigned = @ + 1]

\* Entry of the call up to the early return and the shuffle.
PlanStart ==
  /\ pc = "start"
  /\ LET ps == MakePools(restaurants, requireCaptain)
     IN  IF Len(ps) = 0
         THEN /\ pc' = "done"
              /\ pools' = ps
              /\ assignments' = <<>>
              /\ unassigned' = participants
              /\ shuffled' = <<>>
         ELSE /\ pc' = "loop"
              /\ pools' = ps
              /\ assignments' = <<>>
              /\ unassigned' = <<>>
              /\ LET items == SelectSeq(participants, NotCancelled)
                 IN  \E js \in RandomDraws(Len(items) - 1) :
                       shuffled' = randomShuffle(items, js)
  /\ cursor' = 0
  /\ UNCHANGED <<restaurants, participants, requireCaptain, plan, error, rosters>>
  /\ UNCHANGED storeVars

\* One iteration of `for (const participant of shuffledParticipants)`.
PlanLoop ==
  /\ pc = "loop"
  /\ cursor < Len(shuffled)
  /\ LET participant == shuffled[cursor + 1]
         target == Target(pools)
     IN  IF participant.is_table_captain
         THEN UNCHANGED <<pools, assignments, unassigned>>
         ELSE IF target = NULL
         THEN /\ unassigned' = Append(unassigned, participant)
              /\ UNCHANGED <<pools, assignments>>
         ELSE /\ assignments' = Append(assignments,
                    [participantId |-> participant.id, restaurantId |-> target])
              /\ pools' = BumpPool(pools, target)
              /\ UNCHANGED unassigned
  /\ cursor' = cursor + 1
  /\ UNCHANGED <<restaurants, participants, requireCaptain, pc, shuffled, plan,
                 error, rosters>>
  /\ UNCHANGED storeVars

\* return { assignments, unassigned }
PlanReturn ==
  /\ pc = "loop"
  /\ cursor = Len(shuffled)
  /\ pc' = "done"
  /\ UNCHANGED <<restaurants, participants, requireCaptain, shuffled, cursor,
                 pools, assignments, unassigned, plan, error, rosters>>
  /\ UNCHANGED storeVars

-----------------------------------------------------------------------------
(* buildRestaurantRosters.  An attendee_name is a sequence of characters;  *)
(* localeCompare orders names by their letters first and, between names    *)
(* with the same letters, puts the lower-case form first.                  *)

Letter(ch) == IF ch \in {"a", "A"} THEN 1 ELSE 2

IsUpper(ch) == ch \in {"A", "B"}

Sign(x) == IF x < 0 THEN -1 ELSE IF x > 0 THEN 1 ELSE 0

\* Primary collation strength: the letters, case ignored.
RECURSIVE CompareLetters(_, _)
CompareLetters(l, r) ==
  IF l = <<>> /\ r = <<>> THEN 0
  ELSE IF l = <<>> THEN -1
  ELSE IF r = <<>> THEN 1
  ELSE IF Letter(Head(l)) # Letter(Head(r)) THEN Sign(Letter(Head(l)) - Letter(Head(r)))
  ELSE CompareLetters(Tail(l), Tail(r))

\* Tertiary collation strength, for names with the same letters.
RECURSIVE CompareCase(_, _)
CompareCase(l, r) ==
  IF l = <<>> \/ r = <<>> THEN 0
  ELSE IF IsUpper(Head(l)) # IsUpper(Head(r)) THEN (IF IsUpper(Head(l)) THEN 1 ELSE -1)
  ELSE CompareCase(Tail(l), Tail(r))

\* left.localeCompare(right)
localeCompare(left, right) ==
  IF CompareLetters(left, right) # 0 THEN CompareLetters(left, right)
  ELSE CompareCase(left, right)

\* roster.participants.sort(...): stable.
RECURSIVE InsertByName(_, _)
InsertByName(x, sorted) ==
  IF sorted = <<>> THEN <<x>>
  ELSE IF localeCompare(x.attendee_name, Head(sorted).attendee_name) < 0
       THEN <<x>> \o sorted
  ELSE <<Head(sorted)>> \o InsertByName(x, Tail(sorted))

\* A roster left in the order of the pushes.
SortByNameKeepOrder(ps) == ps

RECURSIVE SortByName(_)
SortByName(ps) ==
  IF ps = <<>> THEN <<>>
  ELSE InsertByName(ps[Len(ps)], SortByName(SubSeq(ps, 1, Len(ps) - 1)))

\* The value of `null` in a roster's captain field.
NoParticipant == [id |-> NULL]

\* participantById.get(id): new Map(participants.map(p => [p.id, p])), in
\* which a later entry with the same id replaces an earlier one.
participantById(ps, id) ==
  LET hits == {i \in 1..Len(ps) : ps[i].id = id}
  IN  IF hits = {} THEN NoParticipant
      ELSE ps[CHOOSE i \in hits : \A k \in hits : k <= i]

\* restaurant.assigned_captain_id ? participantById.get(...) ?? null : null
ResolveCaptain(r, ps) ==
  IF r.assigned_captain_id # NULL THEN participantById(ps, r.assigned_captain_id)
  ELSE NoParticipant

\* A grouping that drops the last assignment of the list.
RosterParticipantsDropLast(rid, ps, as) ==
  LET n == IF Len(as) = 0 THEN 0 ELSE Len(as) - 1
      mine == SelectSeq(SubSeq(as, 1, n), LAMBDA a :
                a.restaurantId = rid /\ participantById(ps, a.participantId) # NoParticipant)
  IN  [k \in 1..Len(mine) |-> participantById(ps, mine[k].participantId)]

\* The pushes of assignments.forEach into the roster of venue rid: the
\* assignments that name rid and a known participant, in input order.
RosterParticipants(rid, ps, as) ==
  LET mine == SelectSeq(as, LAMBDA a :
                a.restaurantId = rid /\ participantById(ps, a.participantId) # NoParticipant)
  IN  [k \in 1..Len(mine) |-> participantById(ps, mine[k].participantId)]

\* The rosters in reverse venue order.
buildRestaurantRostersReversed(rs, ps, as) ==
  [i \in 1..Len(rs) |->
     [restaurant |-> rs[Len(rs) + 1 - i],
      captain |-> ResolveCaptain(rs[Len(rs) + 1 - i], ps),
      participants |-> SortByName(RosterParticipants(rs[Len(rs) + 1 - i].id, ps, as))]]

\* Array.from(rosterMap.values()).map(...): one roster per venue id, in the
\* order the ids were first set (the input order, ids being distinct).
buildRestaurantRosters(rs, ps, as) ==
  [i \in 1..Len(rs) |->
     [restaurant |-> rs[i],
      captain |-> ResolveCaptain(rs[i], ps),
      participants |-> SortByName(RosterParticipants(rs[i].id, ps, as))]]

\* The whole call.
BuildRosters ==
  /\ pc = "start"
  /\ pc' = "done"
  /\ rosters' = buildRestaurantRosters(restaurants, participants, assignments)
  /\ UNCHANGED <<restaurants, participants, requireCaptain, shuffled, cursor,
                 pools, assignments, unassigned, plan, error>>
  /\ UNCHANGED storeVars

-----------------------------------------------------------------------------
(* The persisted state (the supabase tables) and the sessions that write   *)
(* it.  Two sessions are told apart: "fresh" acts on lists it has just     *)
(* refetched, "lagging" acts on the lists of its last fetch.  The lagging  *)
(* session's lists of participants and restaurants are taken as current;   *)
(* its assignments list and its workflow state may be stale.               *)

\* The rows of a bag that are in a set.
RowsWhere(rows, keep) == [r \in DOMAIN rows \cap keep |-> rows[r]]

\* The rows of participant p.
RowsOf(rows, p) == {y \in DOMAIN rows : y.participant_id = p}

\* Number of assignment rows of participant p.
RowCount(rows, p) ==
  BagCardinality(RowsWhere(rows, RowsOf(rows, p)))

\* A refetch of the assignments list: the cached list holds every row.
MarkSeen(rows) ==
  LET seenRows == {[r EXCEPT !.seen = TRUE] : r \in DOMAIN rows}
  IN  [x \in seenRows |->
         CopiesIn(x, rows) + CopiesIn([x EXCEPT !.seen = FALSE], rows)]

\* useAssignments().assignments of the session: the rows of it that still exist.
CachedRows(s) ==
  IF s = "fresh" THEN DOMAIN dbRows ELSE {r \in DOMAIN dbRows : r.seen}

\* assignments.map((a) => a.participant_id)
CachedIds(s) ==
  {r.participant_id : r \in CachedRows(s)}
    \cup (IF s = "lagging" THEN cacheGone ELSE {})

\* useEventStatus().eventStatus.state of the session.
eventStatus(s) == IF s = "lagging" THEN cacheState ELSE dbState

isFinalized(s) == eventStatus(s) = "finalized"

\* A table without the constraint unique (participant_id).
UniqueViolationNever(rows, payload) == FALSE

\* unique (participant_id): an insert is rejected as a whole when one of its
\* rows names a participant that has a row, or two of its rows name the same.
UniqueViolation(rows, payload) ==
  \/ \E i \in 1..Len(payload) : RowCount(rows, payload[i].participantId) > 0
  \/ \E i, j \in 1..Len(payload) :
       i # j /\ payload[i].participantId = payload[j].participantId

\* supabase.from("assignments").insert(payload), once accepted.
RECURSIVE InsertRows(_, _)
InsertRows(rows, payload) ==
  IF payload = <<>> THEN rows
  ELSE InsertRows(
         rows (+) SetToBag({[participant_id |-> Head(payload).participantId,
                             restaurant_id |-> Head(payload).restaurantId,
                             seen |-> FALSE]}),
         Tail(payload))

\* upsert(payload, {onConflict: "participant_id"}): the participant's row is
\* updated in place (it keeps its id), or a row is added.
upsertAssignment(rows, p, r) ==
  IF RowCount(rows, p) > 0
  THEN LET mine == RowsOf(rows, p)
           moved == {[y EXCEPT !.restaurant_id = r] : y \in mine}
       IN  RowsWhere(rows, DOMAIN rows \ mine)
             (+) [x \in moved |->
                    BagCardinality(RowsWhere(rows, {y \in mine : y.seen = x.seen}))]
  ELSE rows (+) SetToBag({[participant_id |-> p, restaurant_id |-> r,
                           seen |-> FALSE]})

\* delete().eq("participant_id", participantId)
removeAssignment(rows, p) == RowsWhere(rows, DOMAIN rows \ RowsOf(rows, p))

\* The participants whose rows, held by the lagging session's list, a delete
\* takes away.
SeenOf(deleted) == {y.participant_id : y \in {x \in deleted : x.seen}}

assignableParticipants ==
  SelectSeq(dbParticipants, LAMBDA p : p.status \in {"registered", "late_joiner"})

nonCaptainParticipants ==
  SelectSeq(assignableParticipants, LAMBDA p : ~p.is_table_captain)

activeCaptains ==
  SelectSeq(dbParticipants, LAMBDA p : p.is_table_captain /\ p.status # "cancelled")

restaurantsWithCaptain ==
  SelectSeq(dbRestaurants, LAMBDA r : r.assigned_captain_id # NULL)

\* The loop of planParticipantAssignments run to its end: the assignments.
RECURSIVE PlanRows(_, _)
PlanRows(ps, todo) ==
  IF todo = <<>> THEN <<>>
  ELSE LET target == Target(ps)
       IN  IF Head(todo).is_table_captain \/ target = NULL
           THEN PlanRows(ps, Tail(todo))
           ELSE <<[participantId |-> Head(todo).id, restaurantId |-> target]>>
                  \o PlanRows(BumpPool(ps, target), Tail(todo))

\* The participants of ps the loop of planParticipantAssignments does not
\* skip.  The shuffle leaves them in any order, whatever the places of the
\* skipped ones, so the handlers shuffle this list.
Placeable(ps) == SelectSeq(ps, LAMBDA p : NotCancelled(p) /\ ~p.is_table_captain)

\* plannedAssignments of planParticipantAssignments(rs, ps) when the shuffle
\* of the placeable participants draws js.
PlannedAssignments(rs, ps, js) ==
  IF Len(MakePools(rs, TRUE)) = 0 THEN <<>>
  ELSE PlanRows(MakePools(rs, TRUE), randomShuffle(Placeable(ps), js))

\* The end of a handler: the tables it leaves, the lists the session's
\* invalidateQueries refetch, the dialog and the outcome.
Commit(s, rs, ps, rows, state, refetchRows, refetchState, gone, dlg, outcome) ==
  /\ dbRestaurants' = rs
  /\ dbParticipants' = ps
  /\ dbRows' = IF s = "lagging" /\ refetchRows THEN MarkSeen(rows) ELSE rows
  /\ cacheGone' = IF s = "lagging" /\ refetchRows THEN {} ELSE cacheGone \cup gone
  /\ dbState' = state
  /\ cacheState' = IF s = "lagging" /\ refetchState THEN state ELSE cacheState
  /\ dialogOpen' = dlg
  /\ last' = outcome
  /\ UNCHANGED <<callVars, sessions, syncResult>>

\* An early return: a toast and nothing else.
Refused(s) ==
  Commit(s, dbRestaurants, dbParticipants, dbRows, dbState, FALSE, FALSE, {},
         dialogOpen, "refused")

\* The dashboard is behind the re-shuffle dialog while it is open.
Free(s) == s = "lagging" => ~dialogOpen

\* A handler that writes the workflow state before it writes its plan.
WrittenStateFirst(written, state) == state

\* setEventStatusMutation.mutateAsync(state) comes after the writes of the
\* plan, each of which throws on error: it runs when all of them went through.
WrittenState(written, state) == IF written THEN state ELSE dbState

\* What the database may do to the writes of a re-shuffle or an incremental
\* run: accept them, or refuse the delete or the insert.
Faults == {"none", "delete", "insert"}

\* The first k updates of `for (const {restaurantId, captainId} of plan)`.
WriteCaptains(rs, captainPlan, k) ==
  [i \in 1..Len(rs) |->
     LET hits == {j \in 1..k : captainPlan[j].restaurantId = rs[i].id}
     IN  IF hits = {} THEN rs[i]
         ELSE [rs[i] EXCEPT !.assigned_captain_id =
                 captainPlan[CHOOSE j \in hits : \A h \in hits : h <= j].captainId]]

\* handleAssignCaptains: k of the per-venue updates succeed; the next one
\* fails and throws, unless all did.
handleAssignCaptains(s) ==
  IF \/ isFinalized(s)
     \/ Len(dbRestaurants) = 0
     \/ Len(activeCaptains) < Len(dbRestaurants)
  THEN Refused(s)
  ELSE \E js \in RandomDraws(Len(activeCaptains) - 1), k \in 0..Len(dbRestaurants) :
         LET captainPlan ==
               PairCaptains(dbRestaurants,
                            randomShuffle(SelectSeq(activeCaptains, NotCancelled), js))
             all == k = Len(dbRestaurants)
         IN  Commit(s, WriteCaptains(dbRestaurants, captainPlan, k), dbParticipants,
                    dbRows, WrittenState(all, "captains_assigned"),
                    FALSE, all, {}, dialogOpen, IF all THEN "done" ELSE "failed")

\* executeParticipantAssignment: the rows of the session's list are deleted
\* by id, the plan is inserted, the state is advanced.
executeParticipantAssignment(s) ==
  LET dlg == IF s = "lagging" THEN FALSE ELSE dialogOpen
  IN  IF Len(restaurantsWithCaptain) = 0 \/ Len(nonCaptainParticipants) = 0
      THEN Commit(s, dbRestaurants, dbParticipants, dbRows, dbState, FALSE, FALSE,
                  {}, dlg, "refused")
      ELSE \E js \in RandomDraws(Len(Placeable(assignableParticipants)) - 1),
                fault \in Faults :
             LET planned == PlannedAssignments(dbRestaurants, assignableParticipants, js)
                 mine == CachedRows(s)
                 kept == RowsWhere(dbRows, DOMAIN dbRows \ mine)
                 gone == SeenOf(mine)
             IN  IF fault = "delete" /\ CachedIds(s) # {}
                 THEN Commit(s, dbRestaurants, dbParticipants, dbRows,
                             WrittenState(FALSE, "participants_assigned"),
                             FALSE, FALSE, {}, dlg, "failed")
                 ELSE IF /\ Len(planned) > 0
                         /\ (fault = "insert" \/ UniqueViolation(kept, planned))
                 THEN Commit(s, dbRestaurants, dbParticipants, kept,
                             WrittenState(FALSE, "participants_assigned"),
                             FALSE, FALSE, gone, dlg, "failed")
                 ELSE Commit(s, dbRestaurants, dbParticipants,
                             InsertRows(kept, planned),
                             WrittenState(TRUE, "participants_assigned"),
                             TRUE, TRUE, gone, dlg, "done")

\* handleAssignParticipants: the fresh session confirms the dialog at once.
handleAssignParticipants(s) ==
  IF isFinalized(s) THEN Refused(s)
  ELSE IF CachedIds(s) # {} /\ s = "lagging"
  THEN Commit(s, dbRestaurants, dbParticipants, dbRows, dbState, FALSE, FALSE, {},
              TRUE, "asked")
  ELSE executeParticipantAssignment(s)

\* unassignedParticipants of handleAssignUnassigned, from the session's list.
UnassignedOf(s) ==
  SelectSeq(assignableParticipants,
            LAMBDA p : p.id \notin CachedIds(s) /\ ~p.is_table_captain)

\* handleAssignUnassigned
handleAssignUnassigned(s) ==
  LET unassignedParticipants == UnassignedOf(s)
  IN  IF \/ isFinalized(s)
         \/ Len(restaurantsWithCaptain) = 0
         \/ Len(unassignedParticipants) = 0
      THEN Refused(s)
      ELSE \E js \in RandomDraws(Len(Placeable(unassignedParticipants)) - 1),
                fault \in Faults \ {"delete"} :
             LET planned == PlannedAssignments(dbRestaurants, unassignedParticipants, js)
             IN  IF /\ Len(planned) > 0
                    /\ (fault = "insert" \/ UniqueViolation(dbRows, planned))
                 THEN Commit(s, dbRestaurants, dbParticipants, dbRows,
                             WrittenState(FALSE, "participants_assigned"),
                             FALSE, FALSE, {}, dialogOpen, "failed")
                 ELSE Commit(s, dbRestaurants, dbParticipants,
                             InsertRows(dbRows, planned),
                             WrittenState(TRUE, "participants_assigned"),
                             TRUE, TRUE, {}, dialogOpen, "done")

\* The assign branch shared by handleManualAssign and handleAddToRestaurant.
AssignTo(s, participantId, restaurantId) ==
  LET advance == eventStatus(s) = "captains_assigned"
  IN  Commit(s, dbRestaurants, dbParticipants,
             upsertAssignment(dbRows, participantId, restaurantId),
             IF advance THEN "participants_assigned" ELSE dbState,
             TRUE, advance, {}, dialogOpen,
             IF RowCount(dbRows, participantId) > 0 THEN "moved" ELSE "done")

\* handleManualAssign(participantId, restaurantId | null)
handleManualAssign(s, participantId, restaurantId) ==
  IF isFinalized(s) THEN Refused(s)
  ELSE IF restaurantId = NULL
  THEN Commit(s, dbRestaurants, dbParticipants,
              removeAssignment(dbRows, participantId), dbState, TRUE, FALSE,
              SeenOf(RowsOf(dbRows, participantId)),
              dialogOpen, "done")
  ELSE AssignTo(s, participantId, restaurantId)

\* handleAddToRestaurant(restaurantId, participantId)
handleAddToRestaurant(s, restaurantId, participantId) ==
  IF isFinalized(s) THEN Refused(s)
  ELSE AssignTo(s, participantId, restaurantId)

\* handleFinalize
handleFinalize(s) ==
  IF isFinalized(s) \/ CachedIds(s) = {} THEN Refused(s)
  ELSE Commit(s, dbRestaurants, dbParticipants, dbRows, "finalized", FALSE, TRUE,
              {}, dialogOpen, "done")

\* The participants the assignments view lets a session reassign: not
\* cancelled, and not flagged as captain (the select is disabled for those).
ManuallyAssignable ==
  {dbParticipants[i].id : i \in {k \in 1..Len(dbParticipants) :
     /\ dbParticipants[k].status # "cancelled"
     /\ ~dbParticipants[k].is_table_captain}}

\* unassignedParticipants of the assignments view: no assignment row in the
\* session's list and no venue's captain.
AddableParticipants(s) ==
  {p \in ManuallyAssignable :
     /\ p \notin CachedIds(s)
     /\ \A i \in 1..Len(dbRestaurants) : dbRestaurants[i].assigned_captain_id # p}

VenueIds == {dbRestaurants[i].id : i \in 1..Len(dbRestaurants)}

AssignCaptains == \E s \in sessions : Free(s) /\ handleAssignCaptains(s)

AssignParticipants == \E s \in sessions : Free(s) /\ handleAssignParticipants(s)

\* The dialog's confirm button: onConfirm={executeParticipantAssignment}.
ConfirmReassign == dialogOpen /\ executeParticipantAssignment("lagging")

\* The dialog's cancel button.
CancelReassign ==
  /\ dialogOpen
  /\ Commit("lagging", dbRestaurants, dbParticipants, dbRows, dbState, FALSE,
            FALSE, {}, FALSE, "refused")

AssignUnassigned == \E s \in sessions : Free(s) /\ handleAssignUnassigned(s)

ManualAssign ==
  \E s \in sessions, p \in ManuallyAssignable, r \in VenueIds \cup {NULL} :
    handleManualAssign(s, p, r)

AddToRestaurant ==
  \E s \in sessions, r \in VenueIds :
    \E p \in AddableParticipants(s) : handleAddToRestaurant(s, r, p)

Finalize == \E s \in sessions : Free(s) /\ handleFinalize(s)

\* The lagging session refetches its assignments list and its workflow state.
Refetch ==
  /\ "lagging" \in sessions
  /\ Commit("lagging", dbRestaurants, dbParticipants, dbRows, dbState, TRUE, TRUE,
            {}, dialogOpen, last)

\* restaurants.find((r) => r.assigned_captain_id === participantId) and the
\* update that sets its assigned_captain_id to null.
ClearFirstCaptain(rs, id) ==
  LET hits == {i \in 1..Len(rs) : rs[i].assigned_captain_id = id}
  IN  IF hits = {} THEN rs
      ELSE [rs EXCEPT ![CHOOSE i \in hits : \A h \in hits : i <= h].assigned_captain_id = NULL]

\* handleToggleStatus(participantId), people management.
handleToggleStatus(id) ==
  LET newStatus == IF dbParticipants[id].status = "cancelled"
                   THEN "registered" ELSE "cancelled"
      ps == [dbParticipants EXCEPT ![id].status = newStatus,
                                   ![id].manual_status_override = TRUE]
      listed == \/ id \in CachedIds("fresh")
                \/ \E i \in 1..Len(dbRestaurants) : dbRestaurants[i].assigned_captain_id = id
  IN  IF newStatus = "cancelled"
      THEN Commit("fresh", ClearFirstCaptain(dbRestaurants, id), ps,
                  IF listed THEN removeAssignment(dbRows, id) ELSE dbRows,
                  dbState, FALSE, FALSE,
                  IF listed THEN SeenOf(RowsOf(dbRows, id)) ELSE {},
                  dialogOpen, "done")
      ELSE Commit("fresh", dbRestaurants, ps, dbRows, dbState, FALSE, FALSE, {},
                  dialogOpen, "done")

ToggleStatus == \E id \in 1..Len(dbParticipants) : handleToggleStatus(id)

\* The statuses the participant form is given in this model.
FormStatuses == {"registered", "cancelled"}

\* handleSubmit of the participant form, edit mode: the payload of
\* editParticipant.  The name fields are left out of the rows; the phone and
\* the preferred contact are submitted as the form was prefilled with them.
handleSubmit(id, email, status, captain) ==
  LET existingParticipant == dbParticipants[id]
      emailChanged == existingParticipant.attendee_email # email
  IN  Commit("fresh", dbRestaurants,
             [dbParticipants EXCEPT
                ![id].attendee_email = email,
                ![id].is_table_captain = captain,
                ![id].status = status,
                ![id].manual_email_override = IF emailChanged THEN TRUE ELSE @],
             dbRows, dbState, FALSE, FALSE, {}, dialogOpen, "done")

\* The form submitted with a new status and a new captain flag.
SubmitParticipant ==
  \E id \in 1..Len(dbParticipants), status \in FormStatuses, flag \in BOOLEAN :
    handleSubmit(id, dbParticipants[id].attendee_email, status, flag)

\* captainOptions of the restaurant form.
captainOptions ==
  {dbParticipants[i].id : i \in {k \in 1..Len(dbParticipants) :
     dbParticipants[k].is_table_captain}}

\* handleSubmit of the restaurant form, edit mode.
SubmitRestaurant ==
  \E v \in 1..Len(dbRestaurants), captain \in captainOptions \cup {NULL} :
    Commit("fresh", [dbRestaurants EXCEPT ![v].assigned_captain_id = captain],
           dbParticipants, dbRows, dbState, FALSE, FALSE, {}, dialogOpen, "done")

-----------------------------------------------------------------------------
(* The Pretix sync (src/supabase/functions/pretix-sync/index.ts).  A run   *)
(* is given `local`, a function from the position ids of the LOCAL list to *)
(* the e-mail found for the position (NULL: none in either list), and      *)
(* `failing`, the pretix ids whose write the database refuses.             *)

\* existingPretixIds: `if (participant.pretix_id)`.
existingPretixIds(ps) ==
  {ps[i].pretix_id : i \in {k \in 1..Len(ps) : ps[k].pretix_id # NULL}}

\* The `updates` of step 3 for an existing participant.
SyncUpdatesAnyStatus(p, email) ==
  [p EXCEPT !.attendee_email = email,
            !.status = IF p.status = "cancelled" THEN "registered" ELSE @]

SyncUpdates(p, email) ==
  [p EXCEPT !.attendee_email = email,
            !.status = IF ~p.manual_status_override /\ p.status = "cancelled"
                       THEN "registered" ELSE @]

\* Step 4 leaves a participant alone unless this holds.
AutoCancelsNever(p) == FALSE

AutoCancels(p) == p.status # "cancelled" /\ ~p.manual_status_override

\* Steps 3 and 4 for one row of existingParticipants.
SyncedParticipant(p, local, failing) ==
  IF p.pretix_id = NULL THEN p
  ELSE IF p.pretix_id \in DOMAIN local
  THEN IF local[p.pretix_id] = NULL \/ p.pretix_id \in failing
       THEN p ELSE SyncUpdates(p, local[p.pretix_id])
  ELSE IF AutoCancels(p) /\ p.pretix_id \notin failing
       THEN [p EXCEPT !.status = "cancelled"] ELSE p

\* participantData of step 3, as the insert stores it under the next id.
participantData(id, pretixId, email) ==
  [id |-> id, pretix_id |-> pretixId, attendee_email |-> email,
   is_table_captain |-> FALSE, captain_phone |-> NULL,
   captain_preferred_contact |-> NULL, status |-> "registered",
   manual_status_override |-> FALSE, manual_email_override |-> FALSE]

\* The inserts of step 3, in the order of the list.
RECURSIVE InsertSynced(_, _, _)
InsertSynced(ps, local, pids) ==
  IF pids = {} THEN ps
  ELSE LET pid == CHOOSE x \in pids : \A y \in pids : x <= y
       IN  InsertSynced(Append(ps, participantData(Len(ps) + 1, pid, local[pid])),
                        local, pids \ {pid})

\* result.errors, as the set of its pretixId.
SyncErrors(ps, local, failing) ==
  LET known == existingPretixIds(ps)
      row(pid) == ps[CHOOSE i \in 1..Len(ps) : ps[i].pretix_id = pid]
  IN  {pid \in DOMAIN local : local[pid] = NULL}
        \cup {pid \in failing \cap DOMAIN local : local[pid] # NULL}
        \cup {pid \in failing \cap (known \ DOMAIN local) : AutoCancels(row(pid))}

\* The table after a run.
SyncedTable(ps, local, failing) ==
  LET known == existingPretixIds(ps)
      fresh == {pid \in DOMAIN local \ known : local[pid] # NULL /\ pid \notin failing}
  IN  InsertSynced([i \in 1..Len(ps) |-> SyncedParticipant(ps[i], local, failing)],
                   local, fresh)

\* One run of the edge function; `fetched` is FALSE when reading the table
\* or a Pretix list throws, which ends the run before step 3.
pretixSync(local, failing, fetched) ==
  /\ dbParticipants' = IF fetched THEN SyncedTable(dbParticipants, local, failing)
                       ELSE dbParticipants
  /\ syncResult' = IF fetched
                   THEN [local |-> DOMAIN local,
                         errors |-> SyncErrors(dbParticipants, local, failing)]
                   ELSE syncResult
  /\ last' = IF fetched THEN "synced" ELSE "failed"
  /\ UNCHANGED <<callVars, dbRestaurants, dbRows, dbState, cacheGone, cacheState,
                 dialogOpen, sessions>>

\* A run in which Pretix reports, for the positions it lists, the e-mails
\* the table holds.
PretixSync ==
  \E present \in SUBSET existingPretixIds(dbParticipants) :
    pretixSync([pid \in present |->
                  dbParticipants[CHOOSE i \in 1..Len(dbParticipants) :
                                   dbParticipants[i].pretix_id = pid].attendee_email],
               {}, TRUE)

-----------------------------------------------------------------------------
(* Inputs of planParticipantAssignments.                                   *)

\* Ids are distinct: the record at position i of an input list has id i.
WithIds(s) == [i \in 1..Len(s) |-> [id |-> i] @@ s[i]]

RestaurantRecords(seats) ==
  [max_seats : seats, assigned_captain_id : {NULL, 1}]

ParticipantKinds == [status : Statuses, is_table_captain : BOOLEAN]

PlainKind == [status |-> "registered", is_table_captain |-> FALSE]

PlainList(n) == [i \in 1..n |-> PlainKind]

\* Participant lists of the general inputs: ordinary registered attendees,
\* preceded or not by one participant of any kind.
ParticipantLists ==
  {WithIds(PlainList(n)) : n \in 0..MaxParticipants}
    \cup {WithIds(<<k>> \o PlainList(n)) :
            k \in ParticipantKinds, n \in 0..(MaxParticipants - 1)}

\* No persisted state: the calls of the allocation core read none.
StoreIdle ==
  /\ dbRestaurants = <<>>
  /\ dbParticipants = <<>>
  /\ dbRows = EmptyBag
  /\ dbState = "setup"
  /\ cacheGone = {}
  /\ cacheState = "setup"
  /\ dialogOpen = FALSE
  /\ last = "none"
  /\ sessions = {}
  /\ syncResult = NoSync

\* No call of the allocation core in progress.
CallIdle ==
  /\ pc = "start"
  /\ shuffled = <<>>
  /\ cursor = 0
  /\ pools = <<>>
  /\ assignments = <<>>
  /\ unassigned = <<>>
  /\ plan = <<>>
  /\ error = NoError
  /\ rosters = <<>>

Idle == StoreIdle /\ CallIdle

InitPlan ==
  /\ restaurants \in
       {WithIds(s) : s \in SeqsUpTo(RestaurantRecords(1..MaxSeats), MaxVenues)}
  /\ participants \in ParticipantLists
  /\ requireCaptain \in BOOLEAN
  /\ Idle

NextPlan == PlanStart \/ PlanLoop \/ PlanReturn

SpecPlan == InitPlan /\ [][NextPlan]_vars

\* Inputs that exhaust the capacity of two captained venues: the shape of the
\* call made by executeParticipantAssignment once every venue has a captain.
InitOverbook ==
  /\ restaurants \in
       {WithIds(<<[max_seats |-> a, assigned_captain_id |-> 1],
                  [max_seats |-> b, assigned_captain_id |-> 2]>>) :
          a \in 1..OverbookSeats, b \in 1..OverbookSeats}
  /\ participants \in {WithIds(PlainList(n)) : n \in 0..OverbookParticipants}
  /\ requireCaptain = TRUE
  /\ Idle

SpecOverbook == InitOverbook /\ [][NextPlan]_vars

-----------------------------------------------------------------------------
(* Inputs of planCaptainAssignments: the function reads only the ids of    *)
(* the venues and the id and status of the captains.                       *)

CaptainKinds == [status : Statuses, is_table_captain : {TRUE}]

InitCaptain ==
  /\ restaurants \in
       {WithIds([i \in 1..n |-> [max_seats |-> 2, assigned_captain_id |-> NULL]]) :
          n \in 0..MaxVenues}
  /\ participants \in {WithIds(s) : s \in SeqsUpTo(CaptainKinds, MaxCaptains)}
  /\ requireCaptain = TRUE
  /\ Idle

NextCaptain == PlanCaptains

SpecCaptain == InitCaptain /\ [][NextCaptain]_vars

-----------------------------------------------------------------------------
(* Inputs of buildRestaurantRosters: MaxParticipants participants whose    *)
(* names differ in letters, in case and in length, venues whose captain    *)
(* references run through unset, known and unknown, and assignment rows    *)
(* (one per participant at most, as the table's unique (participant_id)    *)
(* demands) that may name an unknown participant or an unknown venue.      *)

NameCycle == << <<"b">>, <<"a">>, <<"A">>, <<"a", "b">> >>

NameOf(i) == NameCycle[((i - 1) % Len(NameCycle)) + 1]

RosterParticipantList ==
  [i \in 1..MaxParticipants |->
     [id |-> i, attendee_name |-> NameOf(i), status |-> "registered",
      is_table_captain |-> FALSE]]

RECURSIVE AssignmentLists(_, _, _)
AssignmentLists(P, V, n) ==
  IF n = 0 THEN {<<>>}
  ELSE LET shorter == AssignmentLists(P, V, n - 1)
       IN  shorter \cup UNION {
             {Append(s, [participantId |-> p, restaurantId |-> v]) :
                p \in P \ {s[k].participantId : k \in 1..Len(s)}, v \in V} :
             s \in {t \in shorter : Len(t) = n - 1}}

CaptainRefCycle == <<NULL, 2, MaxParticipants + 1>>

RosterVenues(k, o) ==
  [i \in 1..k |->
     [id |-> i, max_seats |-> 2,
      assigned_captain_id |-> CaptainRefCycle[((i + o) % Len(CaptainRefCycle)) + 1]]]

InitRoster ==
  /\ restaurants \in
       {RosterVenues(k, o) : k \in 0..MaxVenues, o \in 1..Len(CaptainRefCycle)}
  /\ participants = RosterParticipantList
  /\ requireCaptain = TRUE
  /\ pc = "start"
  /\ shuffled = <<>>
  /\ cursor = 0
  /\ pools = <<>>
  /\ assignments \in AssignmentLists(1..(MaxParticipants + 1),
                                      1..(Len(restaurants) + 1),
                                      MaxRosterAssignments)
  /\ unassigned = <<>>
  /\ plan = <<>>
  /\ error = NoError
  /\ rosters = <<>>
  /\ StoreIdle

NextRoster == BuildRosters

SpecRoster == InitRoster /\ [][NextRoster]_vars

-----------------------------------------------------------------------------
(* Properties of planCaptainAssignments (under SpecCaptain).               *)

-----------------------------------------------------------------------------
(* A caller that keeps its lists and calls the three functions on them one *)
(* call after the other, as the dashboard does with the lists of its       *)
(* queries.  What a call left in its local variables is still there when   *)
(* the next call starts; buildRestaurantRosters is given the plan of the   *)
(* last planParticipantAssignments.                                        *)

InitCalls ==
  /\ restaurants \in
       {RosterVenues(k, o) : k \in 0..MaxVenues, o \in 1..Len(CaptainRefCycle)}
  /\ participants = RosterParticipantList
  /\ requireCaptain \in BOOLEAN
  /\ Idle

\* The caller is back and about to make its next call.
CallAgain ==
  /\ pc \in {"done", "error"}
  /\ pc' = "start"
  /\ UNCHANGED <<restaurants, participants, requireCaptain, shuffled, cursor,
                 pools, assignments, unassigned, plan, error, rosters>>
  /\ UNCHANGED storeVars

NextCalls ==
  \/ PlanCaptains
  \/ PlanStart
  \/ PlanLoop
  \/ PlanReturn
  \/ BuildRosters
  \/ CallAgain

SpecCalls == InitCalls /\ [][NextCalls]_vars

-----------------------------------------------------------------------------
(* Two sessions working on the assignments of an event whose venues have   *)
(* their captains: the state the dashboard is in after Assign all          *)
(* captains.                                                               *)

NewParticipant(i, captain) ==
  [id |-> i, pretix_id |-> i, attendee_email |-> 1, status |-> "registered",
   is_table_captain |-> captain, captain_phone |-> NULL,
   captain_preferred_contact |-> NULL, manual_status_override |-> FALSE,
   manual_email_override |-> FALSE]

InitSessions ==
  /\ CallIdle
  /\ restaurants = <<>>
  /\ participants = <<>>
  /\ requireCaptain = TRUE
  /\ sessions = Sessions
  /\ dbRestaurants =
       [v \in 1..NumVenues |->
          [id |-> v, max_seats |-> VenueSeats, assigned_captain_id |-> v]]
  /\ dbParticipants =
       [i \in 1..(NumVenues + SessionGuests) |-> NewParticipant(i, i <= NumVenues)]
  /\ dbRows = EmptyBag
  /\ dbState = "captains_assigned"
  /\ cacheGone = {}
  /\ cacheState = "captains_assigned"
  /\ dialogOpen = FALSE
  /\ last = "none"
  /\ syncResult = NoSync

NextSessions ==
  \/ AssignParticipants
  \/ ConfirmReassign
  \/ CancelReassign
  \/ AssignUnassigned
  \/ ManualAssign
  \/ AddToRestaurant
  \/ Finalize
  \/ Refetch

SpecSessions == InitSessions /\ [][NextSessions]_vars

-----------------------------------------------------------------------------
(* The two sessions once more, with people management open in one of them: *)
(* the participant form changes statuses while the assignments are made.   *)

\* The participant form submitted with a new status.
SubmitStatus ==
  \E id \in 1..Len(dbParticipants), status \in FormStatuses :
    handleSubmit(id, dbParticipants[id].attendee_email, status,
                 dbParticipants[id].is_table_captain)

NextShared ==
  \/ NextSessions
  \/ SubmitStatus

SpecShared == InitSessions /\ [][NextShared]_vars

-----------------------------------------------------------------------------
(* The two sessions running the three dashboard allocations from the start *)
(* of the event: the captains are flagged, no venue has a captain yet.     *)

InitDashboard ==
  /\ CallIdle
  /\ restaurants = <<>>
  /\ participants = <<>>
  /\ requireCaptain = TRUE
  /\ sessions = Sessions
  /\ dbRestaurants =
       [v \in 1..NumVenues |->
          [id |-> v, max_seats |-> VenueSeats, assigned_captain_id |-> NULL]]
  /\ dbParticipants =
       [i \in 1..(NumVenues + SessionGuests) |-> NewParticipant(i, i <= NumVenues)]
  /\ dbRows = EmptyBag
  /\ dbState = "setup"
  /\ cacheGone = {}
  /\ cacheState = "setup"
  /\ dialogOpen = FALSE
  /\ last = "none"
  /\ syncResult = NoSync

NextDashboard ==
  \/ AssignCaptains
  \/ AssignParticipants
  \/ ConfirmReassign
  \/ CancelReassign
  \/ AssignUnassigned
  \/ Refetch

SpecDashboard == InitDashboard /\ [][NextDashboard]_vars

-----------------------------------------------------------------------------
(* One session working through the whole event, from the import of the     *)
(* participants on: roles, captains, assignments, cancellations, sync.     *)

InitApp ==
  /\ CallIdle
  /\ restaurants = <<>>
  /\ participants = <<>>
  /\ requireCaptain = TRUE
  /\ sessions = {"fresh"}
  /\ dbRestaurants =
       [v \in 1..NumVenues |->
          [id |-> v, max_seats |-> VenueSeats, assigned_captain_id |-> NULL]]
  /\ dbParticipants = [i \in 1..NumPeople |-> NewParticipant(i, FALSE)]
  /\ dbRows = EmptyBag
  /\ dbState = "setup"
  /\ cacheGone = {}
  /\ cacheState = "setup"
  /\ dialogOpen = FALSE
  /\ last = "none"
  /\ syncResult = NoSync

NextApp ==
  \/ AssignCaptains
  \/ AssignParticipants
  \/ AssignUnassigned
  \/ ManualAssign
  \/ AddToRestaurant
  \/ Finalize
  \/ ToggleStatus
  \/ SubmitParticipant
  \/ SubmitRestaurant
  \/ PretixSync

SpecApp == InitApp /\ [][NextApp]_vars

-----------------------------------------------------------------------------
(* One sync run on a table the event may have: SyncPeople participants     *)
(* came from Pretix (the first is a table captain), with any status and    *)
(* any override flags; one was added by hand and has no pretix id; Pretix  *)
(* knows one more position.                                                *)

\* The e-mail addresses at hand.
Emails == {1, 2}

\* The ids of the positions Pretix may list.
PositionIds == 1..(SyncPeople + 1)

\* What people management may have made of an imported participant.
ParticipantStates ==
  [status : Statuses, manual_status_override : BOOLEAN,
   manual_email_override : BOOLEAN]

ImportedParticipant(i, state) ==
  [id |-> i, pretix_id |-> IF i <= SyncPeople THEN i ELSE NULL,
   attendee_email |-> 1, status |-> state.status,
   is_table_captain |-> i = 1,
   captain_phone |-> IF i = 1 THEN 1 ELSE NULL,
   captain_preferred_contact |-> IF i = 1 THEN 1 ELSE NULL,
   manual_status_override |-> state.manual_status_override,
   manual_email_override |-> state.manual_email_override]

AddedByHand ==
  [status |-> "registered", manual_status_override |-> FALSE,
   manual_email_override |-> FALSE]

InitSync ==
  /\ CallIdle
  /\ restaurants = <<>>
  /\ participants = <<>>
  /\ requireCaptain = TRUE
  /\ sessions = {"fresh"}
  /\ dbRestaurants = <<>>
  /\ \E states \in [1..SyncPeople -> ParticipantStates] :
       dbParticipants =
         [i \in 1..(SyncPeople + 1) |->
            ImportedParticipant(i, IF i <= SyncPeople THEN states[i] ELSE AddedByHand)]
  /\ dbRows = EmptyBag
  /\ dbState = "setup"
  /\ cacheGone = {}
  /\ cacheState = "setup"
  /\ dialogOpen = FALSE
  /\ last = "none"
  /\ syncResult = NoSync

\* The lists Pretix may answer with.
PretixLists ==
  UNION {[present -> Emails \cup {NULL}] : present \in SUBSET PositionIds}

\* At most one write of a run is refused.
WriteFailures == {{}} \cup {{pid} : pid \in PositionIds}

\* The run of a behaviour.
SyncRun ==
  /\ last = "none"
  /\ \E local \in PretixLists, failing \in WriteFailures, fetched \in BOOLEAN :
       pretixSync(local, failing, fetched)

NextSync == SyncRun

SpecSync == InitSync /\ [][NextSync]_vars

CallEnded == pc \in {"done", "error"}

NonCancelledCaptains == {i \in 1..Len(participants) : participants[i].status # "cancelled"}

\* The plan pairs every venue with exactly one captain and uses no captain twice.
PlanIsBijection ==
  /\ Len(plan) = Len(restaurants)
  /\ \A i \in 1..Len(restaurants) :
       Cardinality({k \in 1..Len(plan) : plan[k].restaurantId = restaurants[i].id}) = 1
  /\ \A k1, k2 \in 1..Len(plan) :
       plan[k1].captainId = plan[k2].captainId => k1 = k2
  /\ \A k \in 1..Len(plan) :
       \E i \in 1..Len(participants) : participants[i].id = plan[k].captainId

\* C1 as stated: whenever captains.length >= venues.length the call returns a
\* plan with exactly venues.length entries, every venue id in exactly one
\* entry and no captain id in more than one entry.
C1_CaptainBijectionByLength ==
  (CallEnded /\ Len(participants) >= Len(restaurants))
    => (pc = "done" /\ PlanIsBijection)

\* C1 amended: whenever the number of non-cancelled captains is at least
\* venues.length the call returns a plan with exactly venues.length entries,
\* every venue id in exactly one entry and no captain id in more than one entry.
C1_CaptainBijection ==
  (CallEnded /\ Cardinality(NonCancelledCaptains) >= Len(restaurants))
    => (pc = "done" /\ PlanIsBijection)

C1_Witness ==
  /\ pc = "done"
  /\ Len(restaurants) = 2
  /\ Cardinality(NonCancelledCaptains) = 3
  /\ plan[1].captainId = 3
  /\ plan[2].captainId = 1

\* C2: with fewer captains than venues the call fails with a capacity error
\* that reports the number of venues as needed and the number of eligible
\* captains as available, and it returns no plan.
C2_CaptainShortfall ==
  (CallEnded /\ Len(participants) < Len(restaurants))
    => /\ pc = "error"
       /\ error.thrown
       /\ error.need = Len(restaurants)
       /\ error.have = Cardinality(NonCancelledCaptains)
       /\ plan = <<>>

C2_Witness ==
  /\ pc = "error"
  /\ Len(restaurants) = 2
  /\ Len(participants) = 1
  /\ error.need = 2
  /\ error.have = 1

-----------------------------------------------------------------------------
(* Properties of planParticipantAssignments (under SpecPlan and            *)
(* SpecOverbook), stated on the inputs and the two output lists.           *)

Venues == 1..Len(restaurants)

\* The venues the call may use.
Qualifies(i) == requireCaptain => restaurants[i].assigned_captain_id # NULL

QualifyingVenues == {i \in Venues : Qualifies(i)}

EffectiveCapacity(i) ==
  IF restaurants[i].max_seats - 1 > 0 THEN restaurants[i].max_seats - 1 ELSE 0

TotalEffectiveCapacity ==
  SumSeq([i \in Venues |-> IF Qualifies(i) THEN EffectiveCapacity(i) ELSE 0])

\* Number of the first n planned assignments that name venue i.
AssignedAmong(i, n) ==
  Cardinality({k \in 1..n : assignments[k].restaurantId = restaurants[i].id})

AssignedTo(i) == AssignedAmong(i, Len(assignments))

InAssignments(id) == \E k \in 1..Len(assignments) : assignments[k].participantId = id

InUnassigned(id) == \E k \in 1..Len(unassigned) : unassigned[k].id = id

EligibleParticipants ==
  {i \in 1..Len(participants) :
     participants[i].status # "cancelled" /\ ~participants[i].is_table_captain}

Abs(x) == IF x < 0 THEN -x ELSE x

\* C3 as stated: when the eligible venues' total effective capacity is at
\* least the number of eligible non-captain participants, every such
\* participant is in assignments, unassigned is empty and no venue holds
\* more than max_seats - 1 participants.
C3_CapacityRespectAsStated ==
  (pc = "done" /\ TotalEffectiveCapacity >= Cardinality(EligibleParticipants))
    => /\ \A i \in EligibleParticipants : InAssignments(participants[i].id)
       /\ unassigned = <<>>
       /\ \A i \in Venues : AssignedTo(i) <= restaurants[i].max_seats - 1

\* C3 amended: under the same condition every eligible non-captain
\* participant is in assignments, unassigned holds no eligible non-captain
\* participant and is empty whenever at least one venue is eligible, and no
\* venue holds more than max_seats - 1 participants.
C3_CapacityRespect ==
  (pc = "done" /\ TotalEffectiveCapacity >= Cardinality(EligibleParticipants))
    => /\ \A i \in EligibleParticipants : InAssignments(participants[i].id)
       /\ \A i \in EligibleParticipants : ~InUnassigned(participants[i].id)
       /\ QualifyingVenues # {} => unassigned = <<>>
       /\ \A i \in Venues : AssignedTo(i) <= restaurants[i].max_seats - 1

C3_Witness ==
  /\ pc = "done"
  /\ Len(restaurants) = 2
  /\ EffectiveCapacity(1) = 0
  /\ EffectiveCapacity(2) = 2
  /\ Cardinality(QualifyingVenues) = 2
  /\ Cardinality(EligibleParticipants) = 2
  /\ Len(participants) = 3
  /\ Len(assignments) = 2

\* C4 as stated: while some eligible venue has effective capacity > 0, every
\* eligible non-captain participant is placed (by overbooking once the free
\* capacity is used up), so unassigned stays empty for the whole run, also
\* when another eligible venue has effective capacity 0.
C4_OverbookingPlacesEveryone ==
  (pc \in {"loop", "done"} /\ \E i \in QualifyingVenues : EffectiveCapacity(i) > 0)
    => unassigned = <<>>

Overbooked == \E i \in QualifyingVenues : AssignedTo(i) > EffectiveCapacity(i)

PositiveVenues == {i \in QualifyingVenues : EffectiveCapacity(i) > 0}

\* C5 as stated: at the end of a run in which overbooking took place, the
\* numbers of participants of any two eligible venues with effective
\* capacity > 0 differ by at most 1.
C5_FairnessBoundOfOne ==
  (pc = "done" /\ Overbooked)
    => \A i, j \in PositiveVenues : Abs(AssignedTo(i) - AssignedTo(j)) <= 1

\* C5 amended: at the end of a run in which overbooking took place, the
\* numbers of participants of any two eligible venues with effective
\* capacity > 0 differ by at most 1 or by the difference of their effective
\* capacities, whichever is larger.
C5_FairnessBound ==
  (pc = "done" /\ Overbooked)
    => \A i, j \in PositiveVenues :
         Abs(AssignedTo(i) - AssignedTo(j))
           <= Max(1, Abs(EffectiveCapacity(i) - EffectiveCapacity(j)))

C5_Witness ==
  /\ pc = "done"
  /\ Overbooked
  /\ Len(restaurants) = 2
  /\ EffectiveCapacity(1) = 2
  /\ EffectiveCapacity(2) = 3
  /\ AssignedTo(1) = 3
  /\ AssignedTo(2) = 3

\* C6: no participant id appears twice in assignments, and no participant is
\* in both assignments and unassigned.
C6_PlanUniqueness ==
  /\ \A k1, k2 \in 1..Len(assignments) :
       assignments[k1].participantId = assignments[k2].participantId => k1 = k2
  /\ \A k \in 1..Len(unassigned) : ~InAssignments(unassigned[k].id)

C6_Witness ==
  /\ pc = "done"
  /\ Len(assignments) = 2
  /\ Len(unassigned) = 1

\* C7: a venue with effective capacity 0 (max_seats = 1) never receives a
\* participant, neither while capacity is free nor by overbooking.
C7_ZeroCapacityNeverUsed ==
  \A k \in 1..Len(assignments) :
    \A i \in Venues :
      restaurants[i].id = assignments[k].restaurantId => restaurants[i].max_seats > 1

C7_Witness ==
  /\ pc = "done"
  /\ \E i \in QualifyingVenues : restaurants[i].max_seats = 1
  /\ Len(assignments) = 1
  /\ Len(unassigned) = 2

\* C8: with requireCaptain true no assignment names a venue whose
\* assigned_captain_id is unset, and when no venue has a captain the call
\* returns no assignments and every participant in unassigned.
C8_CaptainRequirement ==
  requireCaptain =>
    /\ \A k \in 1..Len(assignments) :
         \A i \in Venues :
           restaurants[i].id = assignments[k].restaurantId
             => restaurants[i].assigned_captain_id # NULL
    /\ (pc = "done" /\ \A i \in Venues : restaurants[i].assigned_captain_id = NULL)
         => (assignments = <<>> /\ unassigned = participants)

C8_Witness ==
  /\ requireCaptain
  /\ pc = "done"
  /\ Len(restaurants) = 2
  /\ restaurants[1].assigned_captain_id = NULL
  /\ restaurants[1].max_seats = 3
  /\ restaurants[2].assigned_captain_id # NULL
  /\ AssignedTo(2) = 3

\* C9 as stated: a cancelled participant and a participant flagged
\* is_table_captain are in neither output list, also when no venue qualifies.
C9_EligibilityFilteringAsStated ==
  pc = "done" =>
    \A i \in 1..Len(participants) :
      (participants[i].status = "cancelled" \/ participants[i].is_table_captain)
        => (~InAssignments(participants[i].id) /\ ~InUnassigned(participants[i].id))

\* C9 amended: a cancelled participant and a participant flagged
\* is_table_captain are never in assignments; they are absent from unassigned
\* when at least one venue qualifies and present in it when none does.
C9_EligibilityFiltering ==
  pc = "done" =>
    \A i \in 1..Len(participants) :
      (participants[i].status = "cancelled" \/ participants[i].is_table_captain)
        => /\ ~InAssignments(participants[i].id)
           /\ InUnassigned(participants[i].id) <=> (QualifyingVenues = {})

C9_Witness ==
  /\ pc = "done"
  /\ QualifyingVenues # {}
  /\ Len(participants) = 3
  /\ participants[1].status = "cancelled"
  /\ Len(assignments) = 2
  /\ unassigned = <<>>

\* The venues with free capacity before the k-th placement of the run.
FreeBefore(k) ==
  {i \in QualifyingVenues : AssignedAmong(i, k - 1) < EffectiveCapacity(i)}

\* C10: every placement made while some eligible venue has free capacity
\* goes to a venue with free capacity that has the fewest participants so
\* far among the venues with free capacity and, among those tied, the
\* largest capacity; the live counters equal the placements made so far.
C10_LeastFullPlacement ==
  /\ \A k \in 1..Len(assignments) :
       FreeBefore(k) # {} =>
         \E c \in FreeBefore(k) :
           /\ restaurants[c].id = assignments[k].restaurantId
           /\ \A i \in FreeBefore(k) :
                /\ AssignedAmong(c, k - 1) <= AssignedAmong(i, k - 1)
                /\ AssignedAmong(i, k - 1) = AssignedAmong(c, k - 1)
                     => EffectiveCapacity(i) <= EffectiveCapacity(c)
  /\ \A n \in 1..Len(pools) :
       \A i \in Venues :
         restaurants[i].id = pools[n].id => pools[n].assigned = AssignedTo(i)

C10_Witness ==
  /\ pc = "done"
  /\ Len(restaurants) = 2
  /\ EffectiveCapacity(1) = 1
  /\ EffectiveCapacity(2) = 2
  /\ Len(assignments) = 3
  /\ assignments[1].restaurantId = 2
  /\ assignments[2].restaurantId = 1
  /\ assignments[3].restaurantId = 2

\* C11: when the call is given no venues, or eligible venues that all have
\* effective capacity 0, assignments is empty, every eligible (non-cancelled,
\* non-captain) participant is in unassigned, and no error is raised.
C11_NoCapacityEdgeCase ==
  (pc = "done" /\ \A i \in QualifyingVenues : EffectiveCapacity(i) = 0)
    => /\ assignments = <<>>
       /\ \A i \in EligibleParticipants : InUnassigned(participants[i].id)
       /\ ~error.thrown

C11_Witness ==
  /\ pc = "done"
  /\ Cardinality(QualifyingVenues) = 2
  /\ \A i \in QualifyingVenues : restaurants[i].max_seats = 1
  /\ Cardinality(EligibleParticipants) = 2
  /\ Len(participants) = 3
  /\ Len(unassigned) = 2

\* All eligible venues have the same effective capacity c > 0.
SameCapacity(c) ==
  /\ c > 0
  /\ QualifyingVenues # {}
  /\ \A i \in QualifyingVenues : EffectiveCapacity(i) = c

\* C12: when all eligible venues have the same effective capacity c > 0 and
\* there are as many eligible non-captain participants as total capacity,
\* every venue gets exactly c participants; with fewer participants the
\* venue counts differ by at most 1.
C12_EvenSplit ==
  \A c \in 1..OverbookSeats :
    (pc = "done" /\ SameCapacity(c)) =>
      /\ Cardinality(EligibleParticipants) = TotalEffectiveCapacity
           => \A i \in QualifyingVenues : AssignedTo(i) = c
      /\ Cardinality(EligibleParticipants) < TotalEffectiveCapacity
           => \A i, j \in QualifyingVenues : Abs(AssignedTo(i) - AssignedTo(j)) <= 1

C12_Witness ==
  /\ pc = "done"
  /\ Len(restaurants) = 2
  /\ restaurants[1].max_seats = 3
  /\ restaurants[2].max_seats = 3
  /\ Len(participants) = 4
  /\ AssignedTo(1) = 2
  /\ AssignedTo(2) = 2
  /\ unassigned = <<>>

(***************************************************************************)
(* Restaurant rosters (buildRestaurantRosters).                            *)
(***************************************************************************)

KnownParticipant(id) == \E k \in 1..Len(participants) : participants[k].id = id

\* The input assignments that name venue rid and a known participant.
KnownAssignmentsOf(rid) ==
  {k \in 1..Len(assignments) :
     /\ assignments[k].restaurantId = rid
     /\ KnownParticipant(assignments[k].participantId)}

\* C13 (roster shape): the result has one entry per input venue, in input
\* order, each carrying its venue; an entry's captain is the participant whose
\* id equals the venue's assigned_captain_id, and null when the reference is
\* unset or names no participant of the input.
C13_RosterShape ==
  pc = "done" =>
    /\ Len(rosters) = Len(restaurants)
    /\ \A i \in 1..Len(rosters) :
         /\ rosters[i].restaurant = restaurants[i]
         /\ IF /\ restaurants[i].assigned_captain_id # NULL
               /\ KnownParticipant(restaurants[i].assigned_captain_id)
            THEN \E k \in 1..Len(participants) :
                   /\ participants[k].id = restaurants[i].assigned_captain_id
                   /\ rosters[i].captain = participants[k]
            ELSE rosters[i].captain = NoParticipant

C13_Witness ==
  /\ pc = "done"
  /\ Len(rosters) >= 2
  /\ \E i \in 1..Len(rosters) : rosters[i].captain # NoParticipant
  /\ \E i \in 1..Len(rosters) :
       /\ restaurants[i].assigned_captain_id # NULL
       /\ rosters[i].captain = NoParticipant

\* C14 (roster completeness with defensive dropping): an entry's participants
\* are exactly the participants of the input assignments that name its venue
\* and a known participant, as many as there are such assignments; an
\* assignment naming an unknown participant or an unknown venue shows in no
\* roster, and the call ends without error.
C14_RosterCompleteness ==
  pc = "done" =>
    /\ error = NoError
    /\ \A i \in 1..Len(rosters) :
         LET mine == KnownAssignmentsOf(restaurants[i].id)
             listed == rosters[i].participants
         IN  /\ Len(listed) = Cardinality(mine)
             /\ {listed[j].id : j \in 1..Len(listed)} =
                  {assignments[k].participantId : k \in mine}
             /\ \A j \in 1..Len(listed) :
                  \E k \in 1..Len(participants) : listed[j] = participants[k]

C14_Witness ==
  /\ pc = "done"
  /\ \E i \in 1..Len(rosters) :
       /\ Len(rosters[i].participants) >= 1
       /\ \E k \in 1..Len(assignments) :
            /\ assignments[k].restaurantId = restaurants[i].id
            /\ ~KnownParticipant(assignments[k].participantId)
  /\ \E k \in 1..Len(assignments) :
       /\ KnownParticipant(assignments[k].participantId)
       /\ \A i \in 1..Len(restaurants) : restaurants[i].id # assignments[k].restaurantId

\* C15 (roster ordering): whatever the order of the input assignments, each
\* entry's participants are in ascending order of attendee_name, as
\* localeCompare orders names.
C15_RosterOrdering ==
  pc = "done" =>
    \A i \in 1..Len(rosters) :
      \A j, k \in 1..Len(rosters[i].participants) :
        j < k => localeCompare(rosters[i].participants[j].attendee_name,
                               rosters[i].participants[k].attendee_name) <= 0

\* Three participants of one venue, the one pushed first listed last.
C15_Witness ==
  /\ pc = "done"
  /\ \E i \in 1..Len(rosters) :
       /\ Len(rosters[i].participants) = 3
       /\ rosters[i].participants[3].id = assignments[1].participantId

(***************************************************************************)
(* The persisted state.                                                    *)
(***************************************************************************)

ParticipantIds == {dbParticipants[i].id : i \in 1..Len(dbParticipants)}

CaptainRefs == [i \in 1..Len(dbRestaurants) |-> dbRestaurants[i].assigned_captain_id]

\* C16 (persisted assignment uniqueness): whatever manual assigns, manual
\* unassigns, adds to a restaurant, full re-shuffles and assign-unassigned
\* runs the two sessions have made, each participant has at most one
\* assignment row; a manual assign of an assigned participant moves the row.
C16_AssignmentUniqueness ==
  \A p \in ParticipantIds : RowCount(dbRows, p) <= 1

\* A manual assign has just moved a participant, every guest has a row, and
\* the lagging session's list still holds a row that is gone.
C16_Witness ==
  /\ last = "moved"
  /\ BagCardinality(dbRows) = SessionGuests
  /\ cacheGone # {}

\* C17 (finalization lock): once the stored workflow state is finalized, no
\* handler changes an assignment row or a venue's captain reference.
C17_FinalizationLock ==
  [][dbState = "finalized" =>
       /\ MarkSeen(dbRows') = MarkSeen(dbRows)
       /\ CaptainRefs' = CaptainRefs]_vars

\* C18 (captain cancellation clears the reference): when a handler has set a
\* participant's status to cancelled, no venue's assigned_captain_id refers
\* to that participant.
C18_CancellationClearsCaptain ==
  [][\A i \in 1..Len(dbParticipants) :
       (dbParticipants[i].status # "cancelled" /\ dbParticipants'[i].status = "cancelled")
         => \A v \in 1..Len(dbRestaurants') :
              dbRestaurants'[v].assigned_captain_id # dbParticipants[i].id]_vars

\* C19 (captain one-to-one binding): no participant is the assigned captain
\* of more than one venue.
C19_CaptainOneToOne ==
  \A v, w \in 1..Len(dbRestaurants) :
    (v # w /\ CaptainRefs[v] # NULL) => CaptainRefs[v] # CaptainRefs[w]

\* C20 (captain and assignment are disjoint placements): no participant is
\* at once a venue's captain and the participant of an assignment row.
C20_CaptainNotAssigned ==
  \A v \in 1..Len(dbRestaurants) :
    CaptainRefs[v] # NULL => RowCount(dbRows, CaptainRefs[v]) = 0

-----------------------------------------------------------------------------
(* Properties of the Pretix sync (under SpecSync).                         *)

\* A step is a sync run that got as far as step 3.
SyncStep == last' = "synced"

\* C21 (sync respects the manual e-mail override): a sync run leaves the
\* attendee_email of every existing participant whose manual_email_override
\* is set as it was, whatever e-mail Pretix reports.
C21_EmailOverrideRespected ==
  [][SyncStep =>
       \A i \in 1..Len(dbParticipants) :
         dbParticipants[i].manual_email_override
           => dbParticipants'[i].attendee_email = dbParticipants[i].attendee_email]_vars

\* C22 (sync respects the manual status override and the captain role): a
\* sync run leaves the status of every participant whose
\* manual_status_override is set as it was, listed by Pretix or not, and
\* leaves is_table_captain, captain_phone and captain_preferred_contact of
\* every existing participant as they were.
C22_StatusOverrideAndCaptainKept ==
  [][SyncStep =>
       \A i \in 1..Len(dbParticipants) :
         /\ dbParticipants[i].manual_status_override
              => dbParticipants'[i].status = dbParticipants[i].status
         /\ dbParticipants'[i].is_table_captain = dbParticipants[i].is_table_captain
         /\ dbParticipants'[i].captain_phone = dbParticipants[i].captain_phone
         /\ dbParticipants'[i].captain_preferred_contact
              = dbParticipants[i].captain_preferred_contact]_vars

\* A run without errors has met a cancelled captain with a manual status
\* whom Pretix lists, and a participant with a manual status, not cancelled,
\* whom Pretix no longer lists.
C22_Witness ==
  /\ last = "synced"
  /\ syncResult.errors = {}
  /\ \E i, j \in 1..Len(dbParticipants) :
       /\ dbParticipants[i].manual_status_override
       /\ dbParticipants[i].pretix_id \in syncResult.local
       /\ dbParticipants[i].status = "cancelled"
       /\ dbParticipants[i].is_table_captain
       /\ dbParticipants[i].captain_phone # NULL
       /\ dbParticipants[j].manual_status_override
       /\ dbParticipants[j].pretix_id # NULL
       /\ dbParticipants[j].pretix_id \notin syncResult.local
       /\ dbParticipants[j].status # "cancelled"

\* C30 (sync treats disappearance as a status change): a sync run deletes no
\* participant row, and after a run without errors every existing
\* participant with a pretix id and without a manual status is cancelled if
\* the LOCAL list lacks its pretix id and not cancelled if the list has it.
C30_DisappearanceIsStatusChange ==
  [][SyncStep =>
       /\ Len(dbParticipants') >= Len(dbParticipants)
       /\ \A i \in 1..Len(dbParticipants) :
            /\ dbParticipants'[i].id = dbParticipants[i].id
            /\ dbParticipants'[i].pretix_id = dbParticipants[i].pretix_id
       /\ syncResult'.errors = {} =>
            \A i \in 1..Len(dbParticipants) :
              (dbParticipants[i].pretix_id # NULL
                 /\ ~dbParticipants[i].manual_status_override)
                => IF dbParticipants[i].pretix_id \in syncResult'.local
                   THEN dbParticipants'[i].status # "cancelled"
                   ELSE dbParticipants'[i].status = "cancelled"]_vars

\* A run without errors has left a listed participant not cancelled, an
\* unlisted one cancelled, and has inserted the position it did not know.
C30_Witness ==
  /\ last = "synced"
  /\ syncResult.errors = {}
  /\ Len(dbParticipants) > SyncPeople + 1
  /\ \E i, j \in 1..Len(dbParticipants) :
       /\ ~dbParticipants[i].manual_status_override
       /\ dbParticipants[i].pretix_id \in syncResult.local
       /\ dbParticipants[i].status = "late_joiner"
       /\ ~dbParticipants[j].manual_status_override
       /\ dbParticipants[j].pretix_id # NULL
       /\ dbParticipants[j].pretix_id \notin syncResult.local
       /\ dbParticipants[j].status = "cancelled"

-----------------------------------------------------------------------------
(* Properties of the workflow state (under SpecApp and SpecSessions).      *)

\* The place of a workflow state in the order of the enum workflow_state.
WorkflowRank(state) ==
  CASE state = "setup" -> 0
    [] state = "captains_assigned" -> 1
    [] state = "participants_assigned" -> 2
    [] state = "finalized" -> 3

\* C23 (workflow monotonicity): no handler moves the stored workflow state
\* backwards in the order setup < captains_assigned < participants_assigned
\* < finalized.
C23_WorkflowMonotone ==
  [][WorkflowRank(dbState') >= WorkflowRank(dbState)]_vars

-----------------------------------------------------------------------------
(* Properties of the re-shuffle (under SpecShared).                        *)

\* A step is a run of executeParticipantAssignment that ended without an
\* error.
ReshuffleSucceeds ==
  /\ last' = "done"
  /\ \E s \in sessions : executeParticipantAssignment(s)

\* The assignments table holding the rows of a plan and no other.
TableOfPlan(planned) == MarkSeen(InsertRows(EmptyBag, planned))

\* C24 (full re-shuffle replaces the assignment set): after Assign all
\* participants has ended without an error, the assignment rows are exactly
\* the rows of a plan made for the venues and participants at hand, whatever
\* rows another session wrote since this session's last fetch.
C24_ReshuffleReplacesRows ==
  [][ReshuffleSucceeds =>
       \E js \in RandomDraws(Len(Placeable(assignableParticipants)) - 1) :
         MarkSeen(dbRows') =
           TableOfPlan(PlannedAssignments(dbRestaurants, assignableParticipants, js))]_vars

-----------------------------------------------------------------------------
(* Properties of repeated calls (under SpecCalls).                         *)

\* C25 (purity): no step of planCaptainAssignments, planParticipantAssignments
\* or buildRestaurantRosters changes a list the call was given (the venues,
\* the participants, the plan handed to the roster builder), and every call
\* of planParticipantAssignments enters its loop with all per-venue counters
\* at 0 and empty results, whatever earlier calls left behind.
C25_Purity ==
  [][/\ restaurants' = restaurants
     /\ participants' = participants
     /\ requireCaptain' = requireCaptain
     /\ rosters' # rosters => assignments' = assignments
     /\ (pc = "start" /\ pc' = "loop") =>
          /\ \A i \in 1..Len(pools') : pools'[i].assigned = 0
          /\ assignments' = <<>>
          /\ unassigned' = <<>>]_vars

\* A call of planParticipantAssignments is entering its loop after an
\* earlier call placed participants, its plan was made into rosters and the
\* captain allocator ran.
C25_Witness ==
  /\ pc = "loop"
  /\ cursor = 0
  /\ Len(pools) > 0
  /\ \A i \in 1..Len(pools) : pools[i].assigned = 0
  /\ plan # <<>>
  /\ \E i \in 1..Len(rosters) : Len(rosters[i].participants) > 1
  /\ participants = RosterParticipantList

-----------------------------------------------------------------------------
(* Properties of the incremental run (under SpecSessions).                 *)

\* Number of assignment rows of venue v.
RowsAt(rows, v) ==
  BagCardinality(RowsWhere(rows, {y \in DOMAIN rows : y.restaurant_id = v}))

\* Seats of a venue the rows leave free: max_seats - 1 minus its rows.
FreeSeats(rows, r) == Max(Capacity(r) - RowsAt(rows, r.id), 0)

\* The participants without an assignment row that the run has to place.
UnassignedInTable ==
  SelectSeq(assignableParticipants,
            LAMBDA p : RowCount(dbRows, p.id) = 0 /\ ~p.is_table_captain)

\* A step is a run of handleAssignUnassigned that ended without an error.
AssignUnassignedSucceeds ==
  /\ last' = "done"
  /\ \E s \in sessions : handleAssignUnassigned(s)

\* C26 (incremental run keeps venues within capacity): when no venue holds
\* more than max_seats - 1 rows and the free seats of the captained venues
\* are enough for all unassigned participants, no venue holds more than
\* max_seats - 1 rows after Assign unassigned.
C26_IncrementalWithinCapacity ==
  [][(/\ AssignUnassignedSucceeds
      /\ \A i \in 1..Len(dbRestaurants) :
           RowsAt(dbRows, dbRestaurants[i].id) <= Capacity(dbRestaurants[i])
      /\ SumSeq([i \in 1..Len(restaurantsWithCaptain) |->
                   FreeSeats(dbRows, restaurantsWithCaptain[i])])
           >= Len(UnassignedInTable))
       => \A i \in 1..Len(dbRestaurants) :
            RowsAt(dbRows', dbRestaurants[i].id) <= Capacity(dbRestaurants[i])]_vars

-----------------------------------------------------------------------------
(* Properties of finalization under two sessions (under SpecSessions).     *)

\* C27 (finalized is absorbing under interleaving): once finalized has been
\* written to the workflow state, no later write sets another value, also
\* when the writing handler belongs to a session that read the state before
\* the other session finalized.
C27_FinalizedAbsorbing ==
  [][dbState = "finalized" => dbState' = "finalized"]_vars

-----------------------------------------------------------------------------
(* Properties of the output lists of planParticipantAssignments (under     *)
(* SpecPlan).                                                              *)

\* Number of entries of the two output lists that name participant id.
TimesInOutput(id) ==
  Cardinality({k \in 1..Len(assignments) : assignments[k].participantId = id})
    + Cardinality({k \in 1..Len(unassigned) : unassigned[k].id = id})

\* C28 (output partition): when at least one venue qualifies, the call
\* returns every non-cancelled participant not flagged as captain exactly
\* once, in assignments or in unassigned and not in both, so the two lists
\* together are as long as there are such participants.
C28_OutputPartition ==
  (pc = "done" /\ QualifyingVenues # {}) =>
    /\ \A i \in EligibleParticipants : TimesInOutput(participants[i].id) = 1
    /\ Len(assignments) + Len(unassigned) = Cardinality(EligibleParticipants)

\* A call has placed one participant and returned another as unassigned,
\* with a cancelled participant in the input.
C28_Witness ==
  /\ pc = "done"
  /\ QualifyingVenues # {}
  /\ Len(assignments) >= 1
  /\ Len(unassigned) >= 1
  /\ Cardinality(EligibleParticipants) < Len(participants)

-----------------------------------------------------------------------------
(* Properties of the order of the writes (under SpecDashboard).            *)

\* Every row of a plan of participants is in the table.
PlanInTable(planned, rows) ==
  \A k \in 1..Len(planned) :
    \E y \in DOMAIN rows :
      /\ y.participant_id = planned[k].participantId
      /\ y.restaurant_id = planned[k].restaurantId

\* The table holds a whole plan made by a session from one of the two lists
\* the dashboard plans for.
SomePlanInTable(rows) ==
  \E s \in sessions :
    \E list \in {assignableParticipants, UnassignedOf(s)} :
      \E js \in RandomDraws(Len(Placeable(list)) - 1) :
        PlanInTable(PlannedAssignments(dbRestaurants, list, js), rows)

\* The venues carry a whole plan of captains.
SomeCaptainPlanWritten(rs) ==
  \E js \in RandomDraws(Len(activeCaptains) - 1) :
    rs = WriteCaptains(dbRestaurants,
                       PairCaptains(dbRestaurants,
                                    randomShuffle(SelectSeq(activeCaptains, NotCancelled), js)),
                       Len(dbRestaurants))

\* C29 (state advance follows persistence): a run of handleAssignCaptains,
\* executeParticipantAssignment or handleAssignUnassigned that fails leaves
\* the workflow state as it was, and a run that changes the workflow state
\* has ended without an error with every write of its plan made.
C29_StateFollowsPersistence ==
  [][/\ last' = "failed" => dbState' = dbState
     /\ dbState' # dbState =>
          /\ last' = "done"
          /\ dbState' = "captains_assigned" => SomeCaptainPlanWritten(dbRestaurants')
          /\ dbState' = "participants_assigned" => SomePlanInTable(dbRows')]_vars

\* A run of handleAssignCaptains has failed after its first update: one
\* venue has its captain, another has none, the state is still setup.
C29_Witness ==
  /\ last = "failed"
  /\ dbState = "setup"
  /\ \E v, w \in 1..Len(dbRestaurants) :
       /\ dbRestaurants[v].assigned_captain_id # NULL
       /\ dbRestaurants[w].assigned_captain_id = NULL

====
